---- MODULE Spec2Model ----
(***************************************************************************)
(* Model of the speech-expertise annotation app (src/app.py).              *)
(*                                                                         *)
(* The persisted state is the CSV file annotations.csv.  The file is       *)
(* modelled as TEXT: a header line and rows of six text cells.  Every      *)
(* read goes through pandas.read_csv (per-column type inference, default   *)
(* NA tokens) and every write through DataFrame.to_csv (formatting), so a  *)
(* value written and read back is whatever those two conversions make of   *)
(* it.  The session state is st.session_state (show_intro, current_idx,    *)
(* rater_id).  One action stands for one Streamlit script cycle triggered  *)
(* by one user event, including the rerun that follows it.                 *)
(***************************************************************************)
EXTENDS Integers, Sequences, FiniteSets, TLC

VARIABLES
    file,         \* annotations.csv: NoFile, or [hdr, rows] (text cells)
    show_intro,   \* st.session_state.show_intro
    current_idx,  \* st.session_state.current_idx
    rater_id,     \* st.session_state.rater_id
    call,         \* the update_annotation call of the last cycle, if it made
                  \* one: its arguments and how it ended (observation only)
    loader,       \* a run of load_speeches: the dataset and configuration it
                  \* works on and the list it returned
    writers       \* update_annotation calls in progress in concurrent
                  \* sessions: the DataFrame each has built and not yet written

vars == <<file, show_intro, current_idx, rater_id, call, loader, writers>>

\* what the events of one session leave alone
outside == <<loader, writers>>

-----------------------------------------------------------------------------
(* Bounds of the model.                                                    *)

\* largest number of rows the file may hold before a session's appends are
\* cut off
MaxRows == 4
\* the same for the direct calls of StoreSpec
MaxStoreRows == 2
\* number of items in the dataset file sampled_speeches.json
DatasetLen == 4

-----------------------------------------------------------------------------
(* Configuration (app.py lines 10-16).                                     *)

TEST_MODE == TRUE
TEST_SPEECHES_COUNT == 3

-----------------------------------------------------------------------------
(* Text of CSV cells and the values pandas makes of them.                  *)
(* A DataFrame cell is [t, n, s]: t is the Python type of the cell,        *)
(* n its number (int and float cells), s its text (str cells).             *)

IntV(n)   == [t |-> "int",   n |-> n, s |-> ""]
FloatV(n) == [t |-> "float", n |-> n, s |-> ""]
StrV(s)   == [t |-> "str",   n |-> 0, s |-> s]
NaN       == [t |-> "nan",   n |-> 0, s |-> ""]

\* tokens read_csv turns into NaN (pandas' default na_values; the ones of
\* the model's text universe)
NaTexts == {"", "NA", "nan", "NULL", "None", "null", "N/A", "n/a", "NaN"}

\* texts read_csv parses as an integer, with the integer
IntTexts == {"1", "2", "3", "4", "5", "7", "07"}
IntOf(c) ==
    CASE c = "1" -> 1 [] c = "2" -> 2 [] c = "3" -> 3 [] c = "4" -> 4
      [] c = "5" -> 5 [] c = "7" -> 7 [] c = "07" -> 7

\* texts read_csv parses as a float but not as an integer
FloatTexts == {"1.0", "2.0", "3.0", "4.0", "5.0", "7.0"}
FloatOf(c) ==
    CASE c = "1.0" -> 1 [] c = "2.0" -> 2 [] c = "3.0" -> 3 [] c = "4.0" -> 4
      [] c = "5.0" -> 5 [] c = "7.0" -> 7

\* str(int) and repr(float), as to_csv writes numbers
IntText(n) ==
    CASE n = 1 -> "1" [] n = 2 -> "2" [] n = 3 -> "3" [] n = 4 -> "4"
      [] n = 5 -> "5" [] n = 7 -> "7"
FloatText(n) ==
    CASE n = 1 -> "1.0" [] n = 2 -> "2.0" [] n = 3 -> "3.0" [] n = 4 -> "4.0"
      [] n = 5 -> "5.0" [] n = 7 -> "7.0"

Columns == {"item_id", "rater_id", "score", "justification", "context", "statement"}

\* dtype read_csv infers for a column from the texts of its cells
ColumnKind(cells) ==
    IF cells = {} THEN "object"
    ELSE IF cells \subseteq NaTexts THEN "float"
    ELSE IF cells \subseteq IntTexts THEN "int"
    ELSE IF cells \subseteq (IntTexts \cup FloatTexts \cup NaTexts) THEN "float"
    ELSE "object"

\* the value of one cell in a column of the given dtype
ParseCell(kind, c) ==
    IF kind = "int" THEN IntV(IntOf(c))
    ELSE IF c \in NaTexts THEN NaN
    ELSE IF kind = "float"
         THEN FloatV(IF c \in IntTexts THEN IntOf(c) ELSE FloatOf(c))
         ELSE StrV(c)

\* the text to_csv writes for a cell (NaN is written as the empty string)
FormatCell(v) ==
    CASE v.t = "int"   -> IntText(v.n)
      [] v.t = "float" -> FloatText(v.n)
      [] v.t = "nan"   -> ""
      [] v.t = "str"   -> v.s

\* Python's str(x) of a cell, as get_annotation applies it
PyStr(v) ==
    CASE v.t = "int"   -> IntText(v.n)
      [] v.t = "float" -> FloatText(v.n)
      [] v.t = "nan"   -> "nan"
      [] v.t = "str"   -> v.s

\* series == x for a Python str x: true only of a str cell with that text
EqStr(v, x) == v.t = "str" /\ v.s = x

-----------------------------------------------------------------------------
(* The file and its two conversions.                                       *)

NoFile == [exists |-> FALSE, hdr |-> FALSE, rows |-> <<>>]
FileOf(h, rs) == [exists |-> TRUE, hdr |-> h, rows |-> rs]

\* ANNOTATIONS_FILE.exists()
Exists(f) == f.exists

\* read_csv succeeds iff the file has its header line (an empty file
\* raises EmptyDataError)
Readable(f) == f.exists /\ f.hdr

ColumnCells(rs, col) == {rs[i][col] : i \in 1..Len(rs)}

\* pd.read_csv(ANNOTATIONS_FILE): the typed rows of a readable file
ReadCsv(f) ==
    [i \in 1..Len(f.rows) |->
        [col \in Columns |->
            ParseCell(ColumnKind(ColumnCells(f.rows, col)), f.rows[i][col])]]

\* the lines df.to_csv(..., index=False) writes for a DataFrame
CsvRows(df) ==
    [i \in 1..Len(df) |-> [col \in Columns |-> FormatCell(df[i][col])]]

\* df.to_csv(ANNOTATIONS_FILE, index=False) run to completion
ToCsv(df) == FileOf(TRUE, CsvRows(df))

-----------------------------------------------------------------------------
(* Data handling: get_annotation, get_annotations_for_rater,               *)
(* update_annotation (app.py lines 43-125).                                *)

\* the row of Python values update_annotation builds from its arguments
\* (every argument but score is a str; score is the slider's int)
NewRow(item_id, rater, score, justification, context, statement) ==
    [item_id       |-> StrV(item_id),
     rater_id      |-> StrV(rater),
     score         |-> IntV(score),
     justification |-> StrV(justification),
     context       |-> StrV(context),
     statement     |-> StrV(statement)]

\* mask = (df['item_id'] == item_id) & (df['rater_id'] == rater_id)
KeyMask(df, item_id, rater) ==
    {i \in 1..Len(df) : EqStr(df[i].item_id, item_id) /\ EqStr(df[i].rater_id, rater)}

\* df.loc[mask, ...] = ... : the four mutable fields of the masked rows
OverwriteRows(df, mask, score, justification, context, statement) ==
    [i \in 1..Len(df) |->
        IF i \in mask
        THEN [df[i] EXCEPT !.score = IntV(score),
                           !.justification = StrV(justification),
                           !.context = StrV(context),
                           !.statement = StrV(statement)]
        ELSE df[i]]

\* the DataFrame update_annotation hands to to_csv
UpdatedFrame(f, item_id, rater, score, justification, context, statement) ==
    IF ~Exists(f)
    THEN <<NewRow(item_id, rater, score, justification, context, statement)>>
    ELSE LET df   == ReadCsv(f)
             mask == KeyMask(df, item_id, rater)
         IN  IF mask # {}
             THEN OverwriteRows(df, mask, score, justification, context, statement)
             ELSE Append(df, NewRow(item_id, rater, score, justification,
                                    context, statement))

\* update_annotation raises instead of writing: the file exists and
\* read_csv (line 101, outside any try) cannot parse it
UpdateRaises(f) == Exists(f) /\ ~Readable(f)

\* update_annotation run to completion: the file it leaves
update_annotation(f, item_id, rater, score, justification, context, statement) ==
    ToCsv(UpdatedFrame(f, item_id, rater, score, justification, context, statement))

\* to_csv opens the target for writing (truncating it) and writes the header
\* line and then the rows; interrupted after k lines it leaves this file
PartialCsv(df, k) ==
    IF k = 0 THEN FileOf(FALSE, <<>>)
    ELSE FileOf(TRUE, SubSeq(CsvRows(df), 1, k - 1))

\* what get_annotation returns: None, or {'score', 'justification'}
None == [present |-> FALSE, score |-> 0, justification |-> ""]
Annotation(score, justification) ==
    [present |-> TRUE, score |-> score, justification |-> justification]

\* int(x) succeeds on the cell (it raises on NaN and on non-numeric text)
IntOk(v) == v.t \in {"int", "float"} \/ (v.t = "str" /\ v.s \in IntTexts)
PyInt(v) == IF v.t = "str" THEN IntOf(v.s) ELSE v.n

\* variant: the exception of read_csv is not caught; the caller gets an
\* error instead of a result
ReadErrorEscapes == [present |-> FALSE, score |-> 0, justification |-> "error"]

\* get_annotation's except branch (lines 58-61): the error is displayed and
\* None returned
OnReadError == None

get_annotation(f, item_id, rater) ==
    IF ~Exists(f) THEN None
    ELSE IF ~Readable(f) THEN OnReadError
    ELSE LET df   == ReadCsv(f)
             mask == KeyMask(df, item_id, rater)
         IN  IF mask = {} THEN None
             ELSE LET first == CHOOSE i \in mask : \A j \in mask : i <= j
                      row   == df[first]
                  IN  IF IntOk(row.score)
                      THEN Annotation(PyInt(row.score), PyStr(row.justification))
                      ELSE None

\* the dict get_annotations_for_rater returns, as a function from the
\* item_id values of the rater's rows; a later row replaces an earlier one
get_annotations_for_rater(f, rater) ==
    IF ~Exists(f) \/ ~Readable(f) THEN [k \in {} |-> None]
    ELSE LET df    == ReadCsv(f)
             mine  == {i \in 1..Len(df) : EqStr(df[i].rater_id, rater)}
             keys  == {df[i].item_id : i \in mine}
             lastOf(k) == CHOOSE i \in mine :
                             /\ df[i].item_id = k
                             /\ \A j \in mine : df[j].item_id = k => j <= i
         IN  IF \E i \in mine : ~IntOk(df[i].score)
             THEN [k \in {} |-> None]
             ELSE [k \in keys |->
                     [score |-> PyInt(df[lastOf(k)].score),
                      justification |-> df[lastOf(k)].justification]]

-----------------------------------------------------------------------------
(* The speech source (app.py lines 21-33).                                 *)

SpeechId(i) ==
    CASE i = 1 -> "s1" [] i = 2 -> "s2" [] i = 3 -> "s3" [] i = 4 -> "s4"
      [] i = 5 -> "s5" [] OTHER -> "s6"
SpeechText(i) ==
    CASE i = 1 -> "t1" [] i = 2 -> "t2" [] i = 3 -> "t3" [] i = 4 -> "t4"
      [] i = 5 -> "t5" [] OTHER -> "t6"
\* the first item has no context, the second one line, the others two
SpeechContext(i) ==
    CASE i = 1 -> <<>> [] i = 2 -> <<"c1">> [] OTHER -> <<"c1", "c2">>

\* data['speeches'] of sampled_speeches.json
Dataset ==
    [i \in 1..DatasetLen |->
        [speech_id |-> SpeechId(i), text |-> SpeechText(i),
         context |-> SpeechContext(i)]]

Min(a, b) == IF a <= b THEN a ELSE b

\* variant: the slice is taken from the end, speeches[-count:]
LoadSpeechesFromEnd(data, test_mode, count) ==
    IF test_mode
    THEN SubSeq(data, Len(data) - Min(count, Len(data)) + 1, Len(data))
    ELSE data

\* the body of load_speeches on a dataset and a configuration (lines
\* 27-33): the whole list, or the slice speeches[:count]
LoadSpeeches(data, test_mode, count) ==
    IF test_mode
    THEN SubSeq(data, 1, Min(count, Len(data)))
    ELSE data

\* load_speeches(): the whole list, or its first TEST_SPEECHES_COUNT items
load_speeches == LoadSpeeches(Dataset, TEST_MODE, TEST_SPEECHES_COUNT)

speeches == load_speeches
total_speeches == Len(speeches)

\* " | ".join(context) if context else ""
RECURSIVE JoinContext(_)
JoinContext(context) ==
    IF context = <<>> THEN ""
    ELSE IF Len(context) = 1 THEN context[1]
    ELSE context[1] \o " | " \o JoinContext(Tail(context))

-----------------------------------------------------------------------------
(* User inputs of the model.                                               *)

\* rater ids typed into the sidebar text input (besides clearing it)
RaterInputs == {"alice", "7"}
\* positions chosen on the 1..5 slider
ScoreInputs == {5}
\* texts typed into the justification text area, character by character
JustificationInputs ==
    {<<>>, <<" ", " ">>, <<"o", "k">>, <<" ", "o", "k", " ">>}

Whitespace == {" ", "\t", "\n"}

\* str.strip(): leading and trailing whitespace removed
RECURSIVE LStrip(_)
LStrip(chars) ==
    IF chars # <<>> /\ Head(chars) \in Whitespace THEN LStrip(Tail(chars))
    ELSE chars
RECURSIVE RStrip(_)
RStrip(chars) ==
    IF chars # <<>> /\ chars[Len(chars)] \in Whitespace
    THEN RStrip(SubSeq(chars, 1, Len(chars) - 1))
    ELSE chars
Strip(chars) == RStrip(LStrip(chars))

\* the Python str made of the characters
RECURSIVE Text(_)
Text(chars) == IF chars = <<>> THEN "" ELSE Head(chars) \o Text(Tail(chars))

-----------------------------------------------------------------------------
(* One script cycle of main() (app.py lines 252-471).                      *)

\* completed = sum(1 for sid in speech_ids_to_annotate if sid in annotations)
completed(f, rater) ==
    LET annotations == DOMAIN get_annotations_for_rater(f, rater)
    IN  Cardinality({i \in 1..total_speeches :
                        StrV(speeches[i].speech_id) \in annotations})

\* what main() renders: line 264 returns on the instructions page, line 294
\* stops without a rater id, line 363 stops once everything is annotated
Page(intro, rater, f) ==
    IF intro THEN "Instructions"
    ELSE IF rater = "" THEN "Unauthenticated"
    ELSE IF completed(f, rater) >= total_speeches THEN "Complete"
    ELSE "Annotating"

\* variant: the completion page does not stop the script (line 374 missing)
FormShownWhenComplete(intro, rater, f) == ~intro /\ rater # ""

\* the navigation buttons and the form are rendered (lines 376-471)
FormShown(intro, rater, f) == Page(intro, rater, f) = "Annotating"

\* the sidebar with the rater id input is rendered (lines 277-290)
SidebarShown(intro) == ~intro

\* "Ensure index is valid" (lines 380-385)
ClampIdx(idx) ==
    IF idx < 0 THEN 0
    ELSE IF idx >= total_speeches THEN total_speeches - 1
    ELSE idx

\* st.rerun(): the script runs again from the top and, when it gets as far
\* as line 377, clamps the index
Rerun(idx, intro, rater, f) ==
    IF FormShown(intro, rater, f) THEN ClampIdx(idx) ELSE idx

\* "Previous" (lines 393-395): disabled at index 0
PreviousIdx(idx) == IF idx = 0 THEN idx ELSE idx - 1

\* variant: "Next" wraps around to the first item
NextIdxWraps(idx) == (idx + 1) % total_speeches

\* "Next" (lines 398-400): disabled at the last index
NextIdx(idx) == IF idx >= total_speeches - 1 THEN idx ELSE idx + 1

\* variant: the auto-advance does not check for the end
AdvanceIdxUnguarded(idx) == idx + 1

\* auto-advance after a saved annotation (lines 466-468)
AdvanceIdx(idx) == IF idx < total_speeches - 1 THEN idx + 1 ELSE idx

\* variant: the index is advanced before update_annotation is called
FailedIdxAdvanced(idx) == IF idx < total_speeches - 1 THEN idx + 1 ELSE idx

\* the index an exception out of update_annotation leaves: lines 464-471
\* are not reached
FailedIdx(idx) == idx

\* a call's arguments; outcome is "saved", "read_failed" or "write_failed"
\* once it ended, and "invalid" when the form refused the submission
NoCall ==
    [outcome |-> "none", item_id |-> "", rater_id |-> "", score |-> 0,
     justification |-> "", context |-> "", statement |-> ""]
Call(item_id, rater, score, justification, context, statement) ==
    [outcome |-> "called", item_id |-> item_id, rater_id |-> rater,
     score |-> score, justification |-> justification, context |-> context,
     statement |-> statement]
Ended(c, outcome) == [c EXCEPT !.outcome = outcome]

\* variant: the justification is passed as typed
SubmitCallUnstripped(idx, rater, score, chars) ==
    Call(speeches[idx + 1].speech_id, rater, score, Text(chars),
         JoinContext(speeches[idx + 1].context), speeches[idx + 1].text)

\* the arguments main() passes to update_annotation (lines 453-462)
SubmitCall(idx, rater, score, chars) ==
    Call(speeches[idx + 1].speech_id, rater, score, Text(Strip(chars)),
         JoinContext(speeches[idx + 1].context), speeches[idx + 1].text)

\* the file after update_annotation(c) ran to completion
Applied(f, c) ==
    update_annotation(f, c.item_id, c.rater_id, c.score, c.justification,
                      c.context, c.statement)

\* the DataFrame update_annotation(c) hands to to_csv
Frame(f, c) ==
    UpdatedFrame(f, c.item_id, c.rater_id, c.score, c.justification,
                 c.context, c.statement)

\* a run of load_speeches on a dataset and a configuration: before it
\* returned, and after
Loading(data, test_mode, count) ==
    [data |-> data, test_mode |-> test_mode, count |-> count,
     returned |-> FALSE, speeches |-> <<>>]
Loaded(data, test_mode, count) ==
    [data |-> data, test_mode |-> test_mode, count |-> count,
     returned |-> TRUE, speeches |-> LoadSpeeches(data, test_mode, count)]

\* the sessions that may call update_annotation concurrently
Sessions == {"A", "B"}

\* no update_annotation call is in progress in any session
Idle == [pc |-> "idle", c |-> NoCall, df |-> <<>>]
NoWriters == [s \in Sessions |-> Idle]

\* session state is initialised at the first cycle (lines 256-261); the
\* annotation file does not exist yet
Init ==
    /\ file = NoFile
    /\ show_intro = TRUE
    /\ current_idx = 0
    /\ rater_id = ""
    /\ call = NoCall
    /\ loader = Loaded(Dataset, TEST_MODE, TEST_SPEECHES_COUNT)
    /\ writers = NoWriters

\* "I Understand - Start Annotating" (lines 214-216)
Acknowledge ==
    /\ show_intro
    /\ show_intro' = FALSE
    /\ current_idx' = Rerun(current_idx, FALSE, rater_id, file)
    /\ call' = NoCall
    /\ UNCHANGED <<file, rater_id, outside>>

\* the rater id input changed to r (lines 281-290); it may be cleared
ChangeRaterTo(r) ==
    /\ SidebarShown(show_intro)
    /\ r # rater_id
    /\ rater_id' = r
    /\ current_idx' = Rerun(current_idx, show_intro, r, file)
    /\ call' = NoCall
    /\ UNCHANGED <<file, show_intro, outside>>

ChangeRater == \E r \in RaterInputs \cup {""} : ChangeRaterTo(r)

\* "Show Instructions Again" (lines 342-344), below the stop of line 296
ShowInstructions ==
    /\ SidebarShown(show_intro)
    /\ rater_id # ""
    /\ show_intro' = TRUE
    /\ call' = NoCall
    /\ UNCHANGED <<file, current_idx, rater_id, outside>>

\* "Finish and Close" on the completion page (lines 369-373)
Finish ==
    /\ Page(show_intro, rater_id, file) = "Complete"
    /\ call' = NoCall
    /\ UNCHANGED <<file, show_intro, current_idx, rater_id, outside>>

\* "Previous" (lines 393-395)
Previous ==
    /\ FormShown(show_intro, rater_id, file)
    /\ current_idx' = Rerun(PreviousIdx(current_idx), show_intro, rater_id, file)
    /\ call' = NoCall
    /\ UNCHANGED <<file, show_intro, rater_id, outside>>

\* "Next" (lines 398-400)
NextSpeech ==
    /\ FormShown(show_intro, rater_id, file)
    /\ current_idx' = Rerun(NextIdx(current_idx), show_intro, rater_id, file)
    /\ call' = NoCall
    /\ UNCHANGED <<file, show_intro, rater_id, outside>>

\* variant: the justification is tested as typed, not stripped
ValidJustificationUnstripped(chars) == chars # <<>>

\* "if not justification.strip()" fails (line 449)
ValidJustification(chars) == Strip(chars) # <<>>

\* "Submit Annotation" with a justification that strips to nothing
\* (lines 448-450): an inline error, nothing else
SubmitInvalidWith(chars) ==
    /\ ~ValidJustification(chars)
    /\ FormShown(show_intro, rater_id, file)
    /\ call' = Ended(NoCall, "invalid")
    /\ UNCHANGED <<file, show_intro, current_idx, rater_id, outside>>

SubmitInvalid == \E chars \in JustificationInputs : SubmitInvalidWith(chars)

\* "Submit Annotation", saved (lines 451-471)
SubmitWith(score, chars) ==
    LET c == SubmitCall(current_idx, rater_id, score, chars) IN
    /\ ValidJustification(chars)
    /\ FormShown(show_intro, rater_id, file)
    /\ ~UpdateRaises(file)
    /\ Len(Frame(file, c)) <= MaxRows
    /\ file' = Applied(file, c)
    /\ call' = Ended(c, "saved")
    /\ current_idx' =
         Rerun(AdvanceIdx(current_idx), show_intro, rater_id, Applied(file, c))
    /\ UNCHANGED <<show_intro, rater_id, outside>>

Submit ==
    \E score \in ScoreInputs, chars \in JustificationInputs :
        SubmitWith(score, chars)

\* "Submit Annotation" on a file read_csv cannot parse: line 101 raises
SubmitReadFailsWith(score, chars) ==
    /\ ValidJustification(chars)
    /\ FormShown(show_intro, rater_id, file)
    /\ UpdateRaises(file)
    /\ call' = Ended(SubmitCall(current_idx, rater_id, score, chars),
                      "read_failed")
    /\ current_idx' = FailedIdx(current_idx)
    /\ UNCHANGED <<file, show_intro, rater_id, outside>>

SubmitReadFails ==
    \E score \in ScoreInputs, chars \in JustificationInputs :
        SubmitReadFailsWith(score, chars)

\* "Submit Annotation" whose to_csv (line 98 or 125) is interrupted after
\* k lines: the write raises, or the process dies, with the file cut there
SubmitWriteFailsWith(score, chars) ==
    LET c == SubmitCall(current_idx, rater_id, score, chars) IN
    /\ ValidJustification(chars)
    /\ FormShown(show_intro, rater_id, file)
    /\ ~UpdateRaises(file)
    /\ Len(Frame(file, c)) <= MaxRows
    /\ \E k \in 0..Len(Frame(file, c)) : file' = PartialCsv(Frame(file, c), k)
    /\ call' = Ended(c, "write_failed")
    /\ current_idx' = FailedIdx(current_idx)
    /\ UNCHANGED <<show_intro, rater_id, outside>>

SubmitWriteFails ==
    \E score \in ScoreInputs, chars \in JustificationInputs :
        SubmitWriteFailsWith(score, chars)

\* the form's submit handler on one input (lines 446-471), however it ends
SubmitButton(score, chars) ==
    \/ SubmitInvalidWith(chars)
    \/ SubmitWith(score, chars)
    \/ SubmitReadFailsWith(score, chars)
    \/ SubmitWriteFailsWith(score, chars)

\* a new session (the page is reloaded or the app restarted): session
\* state starts over (lines 256-261), the file stays
NewSession ==
    /\ show_intro' = TRUE
    /\ current_idx' = 0
    /\ rater_id' = ""
    /\ call' = NoCall
    /\ UNCHANGED <<file, outside>>

Next ==
    \/ Acknowledge
    \/ ChangeRater
    \/ ShowInstructions
    \/ Finish
    \/ Previous
    \/ NextSpeech
    \/ SubmitInvalid
    \/ Submit
    \/ SubmitReadFails
    \/ SubmitWriteFails
    \/ NewSession

Spec == Init /\ [][Next]_vars

-----------------------------------------------------------------------------
(* The store on its own: update_annotation called directly, with any       *)
(* arguments, starting from a store that does not exist.                   *)

StoreItems == {"s1", "s2"}
StoreRaters == {"alice", "7"}
StoreScores == {2, 5}
StoreJustifications == {"ok", "07", "NA"}
StoreContexts == {""}
StoreStatements == {"t1"}

StoreCalls ==
    {Call(i, r, n, j, c, t) :
        i \in StoreItems, r \in StoreRaters, n \in StoreScores,
        j \in StoreJustifications, c \in StoreContexts, t \in StoreStatements}

StoreInit == Init

\* update_annotation(c) run to completion (app.py lines 84-125)
StoreUpsert ==
    /\ \E c \in StoreCalls :
        /\ ~UpdateRaises(file)
        /\ Len(Frame(file, c)) <= MaxStoreRows
        /\ file' = Applied(file, c)
        /\ call' = Ended(c, "saved")
    /\ UNCHANGED <<show_intro, current_idx, rater_id, outside>>

StoreNext == StoreUpsert

StoreSpec == StoreInit /\ [][StoreNext]_vars

-----------------------------------------------------------------------------
(* load_speeches on its own: one run on any dataset and configuration.     *)

\* largest TEST_SPEECHES_COUNT tried
MaxCount == 4

\* the 'speeches' lists a dataset file may hold: the items of Dataset, any
\* number of them in any order, none twice
Datasets ==
    UNION {{d \in [1..n -> {Dataset[i] : i \in 1..DatasetLen}] :
               \A i, j \in 1..n : d[i] = d[j] => i = j} : n \in 0..DatasetLen}

LoadInit ==
    /\ file = NoFile
    /\ show_intro = TRUE
    /\ current_idx = 0
    /\ rater_id = ""
    /\ call = NoCall
    /\ writers = NoWriters
    /\ \E data \in Datasets, test_mode \in BOOLEAN, count \in 0..MaxCount :
         loader = Loading(data, test_mode, count)

\* load_speeches() runs and returns (lines 21-33)
Load ==
    /\ loader' = Loaded(loader.data, loader.test_mode, loader.count)
    /\ UNCHANGED <<file, show_intro, current_idx, rater_id, call, writers>>

LoadNext == Load

LoadSpec == LoadInit /\ [][LoadNext]_vars

-----------------------------------------------------------------------------
(* Two sessions calling update_annotation on the same file. A call reads   *)
(* the file and builds its DataFrame (lines 86-122), then writes it with   *)
(* to_csv (line 98 or 125); the steps of the two calls interleave.         *)

RaceCalls ==
    {Call(i, "alice", n, "ok", "", "t1") : i \in StoreItems, n \in StoreScores}

\* variant: the call reads the file again when it writes
WrittenAfresh(f, c, df) == Applied(f, c)

\* the file to_csv leaves (line 98 or 125): the DataFrame built when the
\* call read the file, whatever the file holds by now
Written(f, c, df) == ToCsv(df)

RaceInit == Init

\* lines 86-122: the existence test, read_csv and the update of the frame
RaceRead(s) ==
    /\ writers[s].pc = "idle"
    /\ ~UpdateRaises(file)
    /\ \E c \in RaceCalls :
        /\ Len(Frame(file, c)) <= MaxStoreRows
        /\ writers' = [writers EXCEPT ![s] =
                          [pc |-> "read", c |-> c, df |-> Frame(file, c)]]
    /\ UNCHANGED <<file, show_intro, current_idx, rater_id, call, loader>>

\* line 98 or 125: to_csv, after which the call returns normally
RaceWrite(s) ==
    /\ writers[s].pc = "read"
    /\ file' = Written(file, writers[s].c, writers[s].df)
    /\ writers' = [writers EXCEPT ![s].pc = "returned"]
    /\ UNCHANGED <<show_intro, current_idx, rater_id, call, loader>>

\* the session is ready for its next submission
RaceAgain(s) ==
    /\ writers[s].pc = "returned"
    /\ writers' = [writers EXCEPT ![s] = Idle]
    /\ UNCHANGED <<file, show_intro, current_idx, rater_id, call, loader>>

RaceNext == \E s \in Sessions : RaceRead(s) \/ RaceWrite(s) \/ RaceAgain(s)

RaceSpec == RaceInit /\ [][RaceNext]_vars

-----------------------------------------------------------------------------
(* The session of a rater whose id is one of the texts read_csv takes for  *)
(* a missing value, with no failing write.                                 *)

TokenRaters == {"NA"}

TokenChangeRater == \E r \in TokenRaters \cup {""} : ChangeRaterTo(r)

TokenNext ==
    \/ Acknowledge
    \/ TokenChangeRater
    \/ ShowInstructions
    \/ Previous
    \/ NextSpeech
    \/ SubmitInvalid
    \/ Submit
    \/ NewSession

TokenSpec == Init /\ [][TokenNext]_vars

-----------------------------------------------------------------------------
(* The annotation_form component (components/annotation_form.py): its own  *)
(* submit handler on the same file, called with any item.                  *)

FormRaters == {"alice", "bob", ""}
FormJustifications == {"ok", ""}

\* the arguments (speech_id, context, statement) and the widget values
FormCalls ==
    {Call(i, r, n, j, c, t) :
        i \in StoreItems, r \in FormRaters, n \in StoreScores,
        j \in FormJustifications, c \in StoreContexts, t \in StoreStatements}

\* "if rater_id and justification" (line 13)
FormValid(c) == c.rater_id # "" /\ c.justification # ""

\* read_csv raises something other than FileNotFoundError (lines 15-18)
FormRaises(f) == Exists(f) /\ ~Readable(f)

\* the DataFrame handed to to_csv: the file as read, or an empty frame if
\* there is no file, with the new row appended (lines 15-31)
FormFrame(f, c) ==
    Append(IF Exists(f) THEN ReadCsv(f) ELSE <<>>,
           NewRow(c.item_id, c.rater_id, c.score, c.justification,
                  c.context, c.statement))

FormInit == Init

\* "Submit Annotation" with both fields filled (lines 12-36)
FormSubmit ==
    /\ \E c \in FormCalls :
        /\ FormValid(c)
        /\ ~FormRaises(file)
        /\ Len(FormFrame(file, c)) <= MaxStoreRows
        /\ file' = ToCsv(FormFrame(file, c))
        /\ call' = Ended(c, "saved")
    /\ UNCHANGED <<show_intro, current_idx, rater_id, outside>>

\* "Submit Annotation" with an empty field (lines 37-38)
FormRefuse ==
    /\ \E c \in FormCalls : ~FormValid(c)
    /\ call' = Ended(NoCall, "invalid")
    /\ UNCHANGED <<file, show_intro, current_idx, rater_id, outside>>

FormNext == FormSubmit \/ FormRefuse

FormSpec == FormInit /\ [][FormNext]_vars

-----------------------------------------------------------------------------
(* Vocabulary of the properties.                                           *)

\* the rows of the file whose key cells read (item_id, rater)
RowsOfKey(f, item_id, rater) ==
    {i \in 1..Len(f.rows) :
        f.rows[i].item_id = item_id /\ f.rows[i].rater_id = rater}

\* the line a call's values make in the file
CallLine(c) ==
    [item_id |-> c.item_id, rater_id |-> c.rater_id, score |-> IntText(c.score),
     justification |-> c.justification, context |-> c.context,
     statement |-> c.statement]

\* the page the session shows
CurrentPage == Page(show_intro, rater_id, file)

\* every loaded item has a row of this rater in the file
AllAnnotated(f, rater) ==
    \A i \in 1..total_speeches :
        RowsOfKey(f, speeches[i].speech_id, rater) # {}

-----------------------------------------------------------------------------
(* Properties of the store (checked under StoreSpec).                      *)

\* C1: starting from no store, after any sequence of upserts the store
\* holds at most one row per (item_id, rater_id) pair.
KeyUniqueness ==
    \A i, j \in 1..Len(file.rows) :
        (/\ file.rows[i].item_id = file.rows[j].item_id
         /\ file.rows[i].rater_id = file.rows[j].rater_id) => i = j

\* C2: an upsert that follows an upsert of the same key leaves exactly one
\* row for that key, carrying the later call's score, justification,
\* context and statement.
OverwriteReplaces ==
    [][(/\ call.outcome = "saved"
        /\ call'.outcome = "saved"
        /\ call'.item_id = call.item_id
        /\ call'.rater_id = call.rater_id)
       => (/\ Cardinality(RowsOfKey(file', call'.item_id, call'.rater_id)) = 1
           /\ \A i \in RowsOfKey(file', call'.item_id, call'.rater_id) :
                 file'.rows[i] = CallLine(call'))]_vars

\* C3: update_annotation is idempotent: repeating the call that was just
\* made leaves the store as it is.
UpsertIdempotent ==
    call.outcome = "saved" => Applied(file, call) = file

\* C4: get_annotation after update_annotation returns the written score
\* (as an integer) and justification.
RoundTrip ==
    call.outcome = "saved" =>
        get_annotation(file, call.item_id, call.rater_id)
            = Annotation(call.score, call.justification)

-----------------------------------------------------------------------------
(* Properties of the session (checked under Spec).                         *)

\* C5: with the instructions dismissed and a rater id set, the session is
\* Complete exactly when every loaded item has an annotation by the
\* current rater in the store.
CompleteIffAllAnnotated ==
    (~show_intro /\ rater_id # "") =>
        (CurrentPage = "Complete" <=> AllAnnotated(file, rater_id))

\* C6 as stated: once Complete, no session event brings the session back
\* to Annotating.
CompleteIsSticky ==
    [][CurrentPage = "Complete"
       => Page(show_intro', rater_id', file') # "Annotating"]_vars

\* C6 amended: once Complete, no session event that leaves the rater id
\* as it is brings the session back to Annotating.
CompleteStickyForRater ==
    [][(CurrentPage = "Complete" /\ rater_id' = rater_id)
       => Page(show_intro', rater_id', file') # "Annotating"]_vars

\* a cycle ran on the completed session
CompleteVisited == CurrentPage = "Complete" /\ call.outcome = "none"

\* C7: a write phase that is cut short leaves the file a valid table that
\* still contains every previously saved row unchanged.
CrashKeepsSavedRows ==
    [][call'.outcome = "write_failed"
       => (/\ Exists(file) => Readable(file')
           /\ \A i \in 1..Len(file.rows) :
                 \E j \in 1..Len(file'.rows) : file'.rows[j] = file.rows[i])]_vars

\* C8: the cursor index lies in [0, total_speeches - 1]; "previous" at
\* index 0 and "next" at the last index leave it unchanged, elsewhere they
\* change it by exactly -1 and +1.
NavigationClamped ==
    /\ current_idx \in 0..(total_speeches - 1)
    /\ [][/\ current_idx' \in 0..(total_speeches - 1)
          /\ Previous =>
               current_idx' = IF current_idx = 0 THEN 0 ELSE current_idx - 1
          /\ NextSpeech =>
               current_idx' = IF current_idx = total_speeches - 1
                              THEN current_idx ELSE current_idx + 1]_vars

\* navigation reached the last index
AtLastIndex ==
    /\ CurrentPage = "Annotating"
    /\ current_idx = total_speeches - 1
    /\ call.outcome = "none"

\* C9: a saved submission at index i has upserted the annotation of
\* (item i, current rater) and leaves the cursor at i + 1, or at i when i
\* is the last index.
SubmitUpsertsThenAdvances ==
    [][call'.outcome = "saved"
       => (/\ call'.item_id = speeches[current_idx + 1].speech_id
           /\ call'.rater_id = rater_id
           /\ \E i \in 1..Len(file'.rows) : file'.rows[i] = CallLine(call')
           /\ current_idx' = IF current_idx < total_speeches - 1
                             THEN current_idx + 1 ELSE current_idx)]_vars

\* a submission was saved at the last index, and one before the last
SavedAtLastIndex ==
    /\ call.outcome = "saved"
    /\ call.item_id = speeches[total_speeches].speech_id
    /\ current_idx = total_speeches - 1

\* C10: a submission whose update_annotation raises, while reading or
\* while persisting, leaves the cursor index where it was.
FailedSubmitHoldsCursor ==
    [][call'.outcome \in {"read_failed", "write_failed"}
       => current_idx' = current_idx]_vars

\* a write failed at an index the cursor could have advanced from
WriteFailedBeforeLast ==
    /\ call.outcome = "write_failed"
    /\ current_idx < total_speeches - 1

\* the text is empty or whitespace only
Blank(chars) == \A i \in 1..Len(chars) : chars[i] \in Whitespace

\* C11: a submission whose justification is empty or whitespace-only
\* changes neither the store nor the cursor index, the rater id or the
\* instructions flag, and calls update_annotation with nothing.
BlankSubmissionMutatesNothing ==
    [][\A score \in ScoreInputs, chars \in JustificationInputs :
          (Blank(chars) /\ call'.outcome # "none" /\ SubmitButton(score, chars))
          => (/\ UNCHANGED <<file, show_intro, current_idx, rater_id>>
              /\ call'.outcome = "invalid")]_vars

\* the form refused a submission
SubmissionRefused == call.outcome = "invalid" /\ Exists(file)

\* no call of the session and no row of the file has an empty rater id
NoEmptyRater ==
    /\ call.outcome \in {"saved", "read_failed", "write_failed"}
         => call.rater_id # ""
    /\ \A i \in 1..Len(file.rows) : file.rows[i].rater_id # ""

\* C12: while the rater id is empty the only event of the session is
\* supplying a rater id (or starting over): no navigation, no submission
\* and no store write; no row with an empty rater id is ever written.
UnauthenticatedBlocks ==
    /\ NoEmptyRater
    /\ [][/\ NoEmptyRater'
          /\ CurrentPage = "Unauthenticated"
               => (/\ file' = file
                   /\ call'.outcome = "none"
                   /\ \/ NewSession
                      \/ (/\ rater_id' # ""
                          /\ current_idx' = current_idx
                          /\ show_intro' = show_intro))]_vars

\* C13: get_annotation returns None and get_annotations_for_rater an empty
\* mapping when the file does not exist, when the key (the rater) has no
\* row and when the file cannot be parsed; with an unparsable file the
\* session is on the Annotating page.
ReadsNeverFail ==
    /\ \A r \in RaterInputs \cup {""} :
        /\ \A i \in 1..total_speeches :
             (\/ ~Exists(file)
              \/ ~Readable(file)
              \/ RowsOfKey(file, speeches[i].speech_id, r) = {})
             => get_annotation(file, speeches[i].speech_id, r) = None
        /\ (\/ ~Exists(file)
            \/ ~Readable(file)
            \/ \A i \in 1..Len(file.rows) : file.rows[i].rater_id # r)
           => DOMAIN get_annotations_for_rater(file, r) = {}
    /\ (Exists(file) /\ ~Readable(file) /\ ~show_intro /\ rater_id # "")
        => CurrentPage = "Annotating"

\* the session shows the form over a file read_csv cannot parse
AnnotatingOverCorruptFile ==
    Exists(file) /\ ~Readable(file) /\ CurrentPage = "Annotating"

\* C19: every call the session makes to update_annotation carries a score
\* in 1..5, a justification that is non-empty and stripped, the session's
\* non-empty rater id and the id of the item at the cursor index; a saved
\* call's row is in the file.
WrittenRowsWellFormed ==
    [][call'.outcome \in {"saved", "write_failed"}
       => (/\ call'.score \in 1..5
           /\ \E chars \in JustificationInputs :
                 /\ chars # <<>>
                 /\ Head(chars) \notin Whitespace
                 /\ chars[Len(chars)] \notin Whitespace
                 /\ call'.justification = Text(chars)
           /\ rater_id # ""
           /\ call'.rater_id = rater_id
           /\ current_idx \in 0..(total_speeches - 1)
           /\ call'.item_id = speeches[current_idx + 1].speech_id
           /\ call'.outcome = "saved"
                => \E i \in 1..Len(file'.rows) :
                      /\ file'.rows[i].item_id = call'.item_id
                      /\ file'.rows[i].rater_id = call'.rater_id
                      /\ file'.rows[i].score = IntText(call'.score)
                      /\ file'.rows[i].justification = call'.justification)]_vars

\* a row was saved for the second item
SavedSecondItem ==
    call.outcome = "saved" /\ call.item_id = speeches[2].speech_id

-----------------------------------------------------------------------------
(* Further properties of the store (checked under StoreSpec).              *)

\* C14: update_annotation on key k changes nothing but k's row: rows of
\* other keys keep their six cells and their position; a present k keeps
\* its position and key cells and takes the call's four values; an absent
\* k is appended after all existing rows.
UpsertTouchesOnlyItsRow ==
    [][call'.outcome = "saved"
       => LET k == RowsOfKey(file, call'.item_id, call'.rater_id) IN
          /\ \A i \in 1..Len(file.rows) :
                i \notin k
                => (i <= Len(file'.rows) /\ file'.rows[i] = file.rows[i])
          /\ k # {}
               => (/\ Len(file'.rows) = Len(file.rows)
                   /\ \A i \in k : file'.rows[i] = CallLine(call'))
          /\ k = {}
               => file'.rows = Append(file.rows, CallLine(call'))]_vars

\* C15: for every rater r the mapping of get_annotations_for_rater(r) has
\* as many entries as the store has rows of rater r, and every entry
\* carries the score and justification of its row.
BulkLookupConsistent ==
    \A r \in StoreRaters :
        LET m    == get_annotations_for_rater(file, r)
            mine == {i \in 1..Len(file.rows) : file.rows[i].rater_id = r}
        IN  /\ Cardinality(DOMAIN m) = Cardinality(mine)
            /\ \A i \in mine :
                 /\ StrV(file.rows[i].item_id) \in DOMAIN m
                 /\ IntText(m[StrV(file.rows[i].item_id)].score)
                      = file.rows[i].score
                 /\ m[StrV(file.rows[i].item_id)].justification
                      = StrV(file.rows[i].justification)

-----------------------------------------------------------------------------
(* Further properties of the session (checked under Spec).                 *)

\* C16: no step removes an annotation: every (item_id, rater_id) key
\* present in the store before a step is present after it.
KeysOnlyGrow ==
    [][\A i \in 1..Len(file.rows) :
          RowsOfKey(file', file.rows[i].item_id, file.rows[i].rater_id) # {}]_vars

\* the store holds exactly one row per loaded item, in order, all of them
\* by this rater: what a rater with no prior annotations leaves who
\* submitted every item in turn without navigating
StraightRun(f, rater) ==
    /\ Len(f.rows) = total_speeches
    /\ \A i \in 1..total_speeches :
         /\ f.rows[i].item_id = speeches[i].speech_id
         /\ f.rows[i].rater_id = rater

\* C20: a rater with a non-empty id and no prior annotations who submits
\* the N items in turn is on the Complete page after the N-th saved
\* submission.
StraightRunCompletes ==
    (/\ ~show_intro
     /\ rater_id # ""
     /\ call.outcome = "saved"
     /\ StraightRun(file, rater_id))
    => CurrentPage = "Complete"

-----------------------------------------------------------------------------
(* Properties of load_speeches (checked under LoadSpec).                   *)

\* C17: in test mode with count N load_speeches returns the first
\* min(N, length) items of the dataset in their order; with test mode off
\* it returns the whole list.
LoadReturnsPrefix ==
    loader.returned =>
        LET n == IF loader.test_mode
                 THEN Min(loader.count, Len(loader.data))
                 ELSE Len(loader.data)
        IN  /\ Len(loader.speeches) = n
            /\ \A i \in 1..n : loader.speeches[i] = loader.data[i]

\* the configured count cut a longer dataset
LoadedBoundedSubset ==
    /\ loader.returned
    /\ loader.test_mode
    /\ loader.count = TEST_SPEECHES_COUNT
    /\ Len(loader.data) > TEST_SPEECHES_COUNT

-----------------------------------------------------------------------------
(* Properties of concurrent calls (checked under RaceSpec).                *)

\* C18: when the steps of two update_annotation calls interleave, each
\* write leaves the file as the DataFrame its call built when it read,
\* whatever was written in between, and the call returns normally: the
\* last writer wins and nothing tells either session.
LastWriterWins ==
    [][\A s \in Sessions :
          (writers[s].pc = "read" /\ writers'[s].pc # "read")
          => (/\ file' = ToCsv(writers[s].df)
              /\ writers'[s].pc = "returned")]_vars

\* both calls returned, on different keys, and the file has no row for one
\* of the two keys
LostUpdate ==
    /\ \A s \in Sessions : writers[s].pc = "returned"
    /\ writers["A"].c.item_id # writers["B"].c.item_id
    /\ \E s \in Sessions :
         RowsOfKey(file, writers[s].c.item_id, writers[s].c.rater_id) = {}

-----------------------------------------------------------------------------
(* Properties of the annotation_form component (checked under FormSpec).   *)

\* C21: after a submission through annotation_form the store holds exactly
\* one row for the submitted (speech_id, rater_id) pair, and it carries
\* the submitted values: a second submission for a pair replaces the first.
FormKeepsOneRowPerKey ==
    call.outcome = "saved" =>
        /\ Cardinality(RowsOfKey(file, call.item_id, call.rater_id)) = 1
        /\ \A i \in RowsOfKey(file, call.item_id, call.rater_id) :
             file.rows[i] = CallLine(call)

====
